---- MODULE Spec2Model ----
(***************************************************************************)
(* Model of packages/autometrics/src/wrappers.ts:                          *)
(*   - PushGatewayExporter (export, _export, forceFlush, shutdown), with   *)
(*     the promise reactions it registers run as jobs of the JavaScript    *)
(*     microtask queue, in FIFO order, and with a resultCallback that      *)
(*     calls export() again;                                               *)
(*   - the autometrics() wrapper (wrap time and invocation), with the      *)
(*     predicates supplied, with the shapes of objective and with a        *)
(*     metrics backend whose instruments throw;                            *)
(*   - the @Autometrics() class decorator and calls of the methods.        *)
(***************************************************************************)
EXTENDS Integers, Sequences, FiniteSets, TLC

\* ------------------------------------------------------------------ bounds
\* export(), forceFlush() and shutdown() calls made on the exporter, in total.
MaxOps == 4

\* `_options.concurrencyLimit ?? Infinity`: larger than any array length.
Infinity == 1000

ExportIds == 1..MaxOps
Limits == {1, 2, Infinity}

\* What a result callback does when it is invoked.
CallbackBehaviours == {"return", "throw"}
\* How a fetch() settles: a 2xx response, another response, a rejection.
FetchOutcomes == {"ok", "notOk", "rejected"}

\* ExportResult values handed to resultCallback.
SUCCESS == "SUCCESS"
FailedShutdown == "FAILED: Exporter has been shutdown"
FailedLimit == "FAILED: Concurrent export limit reached"
FailedStatus == "FAILED: Could not push metrics"
FailedTransport == "FAILED: fetch rejected"
FailedCallback == "FAILED: error thrown by resultCallback"

VARIABLES
    concurrencyLimit,  \* this._concurrencyLimit
    sendingPromises,   \* this._sendingPromises: the fetch promises, by export id
    isCalled,          \* this._shutdownOnce.isCalled
    teardowns,         \* flushes started by _shutdown, in order
    shutdownReturned,  \* per shutdown() request: the teardown its promise is bound to
    calls,             \* per export() call: admission, fetch, chain and callback log
    numCalls,          \* export() calls made so far
    flushes,           \* per forceFlush(): Promise.all over a snapshot of the array
    microtasks         \* the microtask queue (promise reaction jobs), FIFO

exporterVars == <<concurrencyLimit, sendingPromises, isCalled, teardowns,
                  shutdownReturned, calls, numCalls, flushes, microtasks>>

VARIABLES
    asyncLocalStorage, \* the module variable: TRUE once getALSInstance() resolved
    options,           \* the AutometricsOptions object the wrap calls are given
    wrappers,          \* per autometrics() call: what its closure captured and
                       \* the observation it made
    invocations,       \* per call of a function autometrics() returned: its
                       \* progress, outcome and the observations it made, in order
    stack,             \* the synchronous call stack, as invocation ids
    faulty,            \* the instrument of the backend that throws; "none"
    prototype          \* the prototype of the class given to @Autometrics()

wrapperVars == <<asyncLocalStorage, options, wrappers, invocations, stack,
                 faulty, prototype>>

vars == <<exporterVars, wrapperVars>>

\* ------------------------------------------------------------------ helpers
Job(kind, d, f, n) == [kind |-> kind, d |-> d, f |-> f, n |-> n]

RECURSIVE IndexOfFrom(_, _, _)
IndexOfFrom(s, x, i) ==
    IF i > Len(s) THEN 0
    ELSE IF s[i] = x THEN i
    ELSE IndexOfFrom(s, x, i + 1)

\* Array.prototype.indexOf, 1-based; 0 stands for JavaScript's -1.
IndexOf(s, x) == IndexOfFrom(s, x, 1)

\* Array.prototype.splice(index, 1) with a 1-based index; JavaScript's
\* splice(-1, 1) removes the last element.
Splice1(s, i) ==
    LET at == IF i = 0 THEN Len(s) ELSE i
    IN  IF Len(s) = 0 THEN s
        ELSE SubSeq(s, 1, at - 1) \o SubSeq(s, at + 1, Len(s))

RemoveLast(s, d) == SubSeq(s, 1, Len(s) - 1)
RemoveNothing(s, d) == s
\* The finally handler of _export.
RemoveSending(s, d) == Splice1(s, IndexOf(s, d))

SeqToSet(s) == {s[i] : i \in 1..Len(s)}

\* `from` is the delivery whose resultCallback made the export() call, 0 for
\* a call made by a task.
NoCall == [status |-> "none", fetch |-> "none",
           stage |-> "none", reason |-> "none", cbLog |-> <<>>, from |-> 0]

\* ------------------------------------------------------------------ Init
\* No options given, nothing wrapped or called.
WrapperIdle ==
    /\ asyncLocalStorage = FALSE
    /\ options = [objective |-> "none", trackConcurrency |-> FALSE,
                  recordErrorIf |-> FALSE, recordSuccessIf |-> FALSE]
    /\ wrappers = <<>>
    /\ invocations = <<>>
    /\ stack = <<>>
    /\ faulty = "none"
    /\ prototype = [decorated |-> "no", properties |-> <<>>]

ExporterInit(limits) ==
    /\ concurrencyLimit \in limits
    /\ sendingPromises = <<>>
    /\ isCalled = FALSE
    /\ teardowns = <<>>
    /\ shutdownReturned = <<>>
    /\ calls = [e \in ExportIds |-> NoCall]
    /\ numCalls = 0
    /\ flushes = <<>>
    /\ microtasks = <<>>

InitExporter == ExporterInit(Limits) /\ WrapperIdle

NumPlainFlushes == Cardinality({f \in 1..Len(flushes) : flushes[f].deferred = "none"})
NumOps == numCalls + NumPlainFlushes + Len(shutdownReturned)

\* ------------------------------------------------------------------ export
IsShutdownNever(called) == FALSE
\* `if (this._shutdownOnce.isCalled)`
IsShutdown(called) == called

LimitReachedStrict(len, limit) == len > limit
\* `if (this._sendingPromises.length >= this._concurrencyLimit)`
LimitReached(len, limit) == len >= limit

AdmissionUnlessFlushing(called, len, limit) ==
    IF IsShutdown(called) \/ \E f \in 1..Len(flushes) : flushes[f].state = "pending"
    THEN "shutdown"
    ELSE IF LimitReached(len, limit) THEN "limit"
    ELSE "admitted"
AdmissionWithoutLimit(called, len, limit) ==
    IF IsShutdown(called) THEN "shutdown" ELSE "admitted"
Admission(called, len, limit) ==
    IF IsShutdown(called) THEN "shutdown"
    ELSE IF LimitReached(len, limit) THEN "limit"
    ELSE "admitted"

\* The call record of export() number e, made from `from`, decided as a:
\* refused (resultCallback called at once) or handed to _export (fetch).
ExportCall(a, from) ==
    IF a = "shutdown"
    THEN [NoCall EXCEPT !.status = a, !.stage = "done",
                        !.cbLog = <<FailedShutdown>>, !.from = from]
    ELSE IF a = "limit"
    THEN [NoCall EXCEPT !.status = a, !.stage = "done",
                        !.cbLog = <<FailedLimit>>, !.from = from]
    ELSE [NoCall EXCEPT !.status = a, !.stage = "sending", !.fetch = "pending",
                        !.from = from]

\* _export: `this._sendingPromises.push(promise)`, for an admitted call only.
Pushed(sending, e, a) == IF a = "admitted" THEN Append(sending, e) ELSE sending

\* export(metrics, resultCallback), called from a task.
Export ==
    /\ microtasks = <<>>
    /\ NumOps < MaxOps
    /\ LET e == numCalls + 1
           a == Admission(isCalled, Len(sendingPromises), concurrencyLimit)
       IN  /\ numCalls' = e
           /\ calls' = [calls EXCEPT ![e] = ExportCall(a, 0)]
           /\ sendingPromises' = Pushed(sendingPromises, e, a)
    /\ UNCHANGED <<concurrencyLimit, isCalled, teardowns, shutdownReturned,
                   flushes, microtasks>>

\* The fetch promise of delivery d settles (in a task of the runtime): its
\* reactions are queued in the order they were registered, the `.then` of
\* _export first, then one per Promise.all that took the promise.
FetchSettles(d, o) ==
    /\ microtasks = <<>>
    /\ calls[d].fetch = "pending"
    /\ calls' = [calls EXCEPT ![d].fetch = o]
    /\ LET fs == {f \in 1..Len(flushes) : d \in flushes[f].awaited}
           RECURSIVE AllJobs(_)
           AllJobs(f) == IF f > Len(flushes) THEN <<>>
                         ELSE (IF f \in fs THEN <<Job("allElement", d, f, 0)>> ELSE <<>>)
                              \o AllJobs(f + 1)
       IN  microtasks' = <<Job("then", d, 0, 0)>> \o AllJobs(1)
    /\ UNCHANGED <<concurrencyLimit, sendingPromises, isCalled, teardowns,
                   shutdownReturned, numCalls, flushes>>

\* ------------------------------------------------------------------ microtasks
Head1 == Head(microtasks)
Rest == Tail(microtasks)
Running(kind) == microtasks # <<>> /\ Head1.kind = kind

\* `.then((response) => { if (!response.ok) throw new Error(...) })`: the
\* rejection reason the derived promise carries, "none" when it fulfils.
CheckResponse(o) ==
    IF o = "ok" THEN "none"
    ELSE IF o = "notOk" THEN FailedStatus
    ELSE FailedTransport

\* Reaction of `promise.then(...)` in _export.
ThenJob ==
    /\ Running("then")
    /\ LET d == Head1.d
       IN  /\ calls' = [calls EXCEPT ![d].reason = CheckResponse(calls[d].fetch),
                                     ![d].stage = "checked"]
           /\ microtasks' = Append(Rest, Job("finally", d, 0, 0))
    /\ UNCHANGED <<concurrencyLimit, sendingPromises, isCalled, teardowns,
                   shutdownReturned, numCalls, flushes>>

\* Reaction of `.finally(...)` in _export: indexOf and splice. The promise
\* `.finally` returns settles three jobs later (the value thunk, the thenable
\* job and its reaction), which the two hop jobs stand for.
FinallyJob ==
    /\ Running("finally")
    /\ LET d == Head1.d
       IN  /\ sendingPromises' = RemoveSending(sendingPromises, d)
           /\ calls' = [calls EXCEPT ![d].stage = "removed"]
           /\ microtasks' = Append(Rest, Job("hop", d, 0, 2))
    /\ UNCHANGED <<concurrencyLimit, isCalled, teardowns, shutdownReturned, numCalls,
                   flushes>>

HopJob ==
    /\ Running("hop")
    /\ microtasks' = Append(Rest,
            IF Head1.n > 1 THEN Job("hop", Head1.d, 0, Head1.n - 1)
            ELSE Job("callback", Head1.d, 0, 0))
    /\ UNCHANGED <<concurrencyLimit, sendingPromises, isCalled, teardowns,
                   shutdownReturned, calls, numCalls, flushes>>

\* Reaction of `.then(() => { resultCallback({ code: SUCCESS }) })` in export:
\* runs the handler when the chain fulfilled, passes a rejection on otherwise.
\* A callback that throws rejects the promise `.catch` is registered on.
CallbackJob(beh) ==
    /\ Running("callback")
    /\ LET d == Head1.d
           c == calls[d]
       IN  /\ calls' = [calls EXCEPT ![d] =
                 IF c.reason = "none"
                 THEN [c EXCEPT !.cbLog = Append(c.cbLog, SUCCESS),
                                !.reason = IF beh = "throw" THEN FailedCallback
                                           ELSE "none",
                                !.stage = "reported"]
                 ELSE [c EXCEPT !.stage = "reported"]]
           /\ microtasks' = Append(Rest, Job("catch", d, 0, 0))
    /\ UNCHANGED <<concurrencyLimit, sendingPromises, isCalled, teardowns,
                   shutdownReturned, numCalls, flushes>>

\* Reaction of `.catch((error) => { resultCallback({ code: FAILED, error }) })`.
CatchJob ==
    /\ Running("catch")
    /\ LET d == Head1.d
           c == calls[d]
       IN  calls' = [calls EXCEPT ![d] =
                 IF c.reason = "none"
                 THEN [c EXCEPT !.stage = "done"]
                 ELSE [c EXCEPT !.cbLog = Append(c.cbLog, c.reason), !.stage = "done"]]
    /\ microtasks' = Rest
    /\ UNCHANGED <<concurrencyLimit, sendingPromises, isCalled, teardowns,
                   shutdownReturned, numCalls, flushes>>

\* ------------------------------------------------------------------ forceFlush
\* Promise.all over the fetch promises: fulfils when each has fulfilled (also
\* with a non-2xx response: the array holds the raw fetch promises), rejects
\* as soon as one rejects.
AllAfter(fl, d, o) ==
    IF fl.all # "pending" THEN fl
    ELSE IF o = "rejected" THEN [fl EXCEPT !.all = "rejected"]
    ELSE LET left == fl.unresolved \ {d}
         IN  [fl EXCEPT !.unresolved = left,
                        !.all = IF left = {} THEN "fulfilled" ELSE "pending"]

\* Reaction Promise.all registered on the fetch promise of delivery d.
AllElementJob ==
    /\ Running("allElement")
    /\ LET d == Head1.d
           f == Head1.f
           after == AllAfter(flushes[f], d, calls[d].fetch)
       IN  /\ flushes' = [flushes EXCEPT ![f] = after]
           /\ microtasks' = IF flushes[f].all = "pending" /\ after.all # "pending"
                            THEN Append(Rest, Job("flushThen", 0, f, 0))
                            ELSE Rest
    /\ UNCHANGED <<concurrencyLimit, sendingPromises, isCalled, teardowns,
                   shutdownReturned, calls, numCalls>>

\* Reaction of `.then(() => {})` in forceFlush: the promise forceFlush returned
\* settles. For a teardown, _shutdownOnce has a reaction on it.
FlushThenJob ==
    /\ Running("flushThen")
    /\ LET f == Head1.f
       IN  /\ flushes' = [flushes EXCEPT ![f].state = flushes[f].all]
           /\ microtasks' = IF flushes[f].deferred = "pending"
                            THEN Append(Rest, Job("deferred", 0, f, 0))
                            ELSE Rest
    /\ UNCHANGED <<concurrencyLimit, sendingPromises, isCalled, teardowns,
                   shutdownReturned, calls, numCalls>>

\* The promise _shutdownOnce.call() returns settles as the teardown did.
DeferredJob ==
    /\ Running("deferred")
    /\ flushes' = [flushes EXCEPT ![Head1.f].deferred = flushes[Head1.f].state]
    /\ microtasks' = Rest
    /\ UNCHANGED <<concurrencyLimit, sendingPromises, isCalled, teardowns,
                   shutdownReturned, calls, numCalls>>

\* forceFlush(): `Promise.all(this._sendingPromises).then(() => {})`.
NewFlush(sending, teardown) ==
    [awaited |-> SeqToSet(sending),
     unresolved |-> SeqToSet(sending),
     all |-> IF sending = <<>> THEN "fulfilled" ELSE "pending",
     state |-> "pending",
     deferred |-> IF teardown THEN "pending" ELSE "none"]

StartFlush(teardown) ==
    /\ flushes' = Append(flushes, NewFlush(sendingPromises, teardown))
    /\ microtasks' = IF sendingPromises = <<>>
                     THEN <<Job("flushThen", 0, Len(flushes) + 1, 0)>>
                     ELSE <<>>

ForceFlush ==
    /\ microtasks = <<>>
    /\ NumOps < MaxOps
    /\ StartFlush(FALSE)
    /\ UNCHANGED <<concurrencyLimit, sendingPromises, isCalled, teardowns,
                   shutdownReturned, calls, numCalls>>

\* ------------------------------------------------------------------ shutdown
RunsTeardownAlways(called) == TRUE
\* BindOnceFuture.call(): the bound _shutdown runs only if it was not called yet.
RunsTeardown(called) == ~called

\* shutdown(): `return this._shutdownOnce.call()`; _shutdown is forceFlush.
Shutdown ==
    /\ microtasks = <<>>
    /\ NumOps < MaxOps
    /\ IF RunsTeardown(isCalled)
       THEN /\ StartFlush(TRUE)
            /\ teardowns' = Append(teardowns, Len(flushes) + 1)
            /\ shutdownReturned' = Append(shutdownReturned, Len(flushes) + 1)
       ELSE /\ shutdownReturned' = Append(shutdownReturned, teardowns[1])
            /\ UNCHANGED <<teardowns, flushes, microtasks>>
    /\ isCalled' = TRUE
    /\ UNCHANGED <<concurrencyLimit, sendingPromises, calls, numCalls>>

NextExporter ==
    \/ Export /\ UNCHANGED wrapperVars
    \/ \E d \in ExportIds, o \in FetchOutcomes : FetchSettles(d, o) /\ UNCHANGED wrapperVars
    \/ ThenJob /\ UNCHANGED wrapperVars
    \/ FinallyJob /\ UNCHANGED wrapperVars
    \/ HopJob /\ UNCHANGED wrapperVars
    \/ \E beh \in CallbackBehaviours : CallbackJob(beh) /\ UNCHANGED wrapperVars
    \/ CatchJob /\ UNCHANGED wrapperVars
    \/ AllElementJob /\ UNCHANGED wrapperVars
    \/ FlushThenJob /\ UNCHANGED wrapperVars
    \/ DeferredJob /\ UNCHANGED wrapperVars
    \/ ForceFlush /\ UNCHANGED wrapperVars
    \/ Shutdown /\ UNCHANGED wrapperVars

SpecExporter == InitExporter /\ [][NextExporter]_vars

\* ------------------------------------------------------------------ re-entrant export
\* A resultCallback that calls export() again before it returns or throws.
\* The success handler of export runs it for a delivery whose chain fulfilled.
CallbackExports(beh) ==
    /\ Running("callback")
    /\ NumOps < MaxOps
    /\ calls[Head1.d].reason = "none"
    /\ LET d == Head1.d
           c == calls[d]
           e == numCalls + 1
           a == Admission(isCalled, Len(sendingPromises), concurrencyLimit)
       IN  /\ numCalls' = e
           /\ calls' = [calls EXCEPT
                 ![d] = [c EXCEPT !.cbLog = Append(c.cbLog, SUCCESS),
                                  !.reason = IF beh = "throw" THEN FailedCallback
                                             ELSE "none",
                                  !.stage = "reported"],
                 ![e] = ExportCall(a, d)]
           /\ sendingPromises' = Pushed(sendingPromises, e, a)
           /\ microtasks' = Append(Rest, Job("catch", d, 0, 0))
    /\ UNCHANGED <<concurrencyLimit, isCalled, teardowns, shutdownReturned, flushes>>

\* The catch handler of export runs it for a delivery whose chain rejected.
CatchExports ==
    /\ Running("catch")
    /\ NumOps < MaxOps
    /\ calls[Head1.d].reason # "none"
    /\ LET d == Head1.d
           c == calls[d]
           e == numCalls + 1
           a == Admission(isCalled, Len(sendingPromises), concurrencyLimit)
       IN  /\ numCalls' = e
           /\ calls' = [calls EXCEPT
                 ![d] = [c EXCEPT !.cbLog = Append(c.cbLog, c.reason), !.stage = "done"],
                 ![e] = ExportCall(a, d)]
           /\ sendingPromises' = Pushed(sendingPromises, e, a)
           /\ microtasks' = Rest
    /\ UNCHANGED <<concurrencyLimit, isCalled, teardowns, shutdownReturned, flushes>>

ReentrantLimits == {1, 2}
InitReentrant == ExporterInit(ReentrantLimits) /\ WrapperIdle

NextReentrant ==
    \/ NextExporter
    \/ \E beh \in CallbackBehaviours : CallbackExports(beh) /\ UNCHANGED wrapperVars
    \/ CatchExports /\ UNCHANGED wrapperVars

SpecReentrant == InitReentrant /\ [][NextReentrant]_vars
\* ------------------------------------------------------------------ autometrics()
\* autometrics() calls plus calls of the functions it returned, per run.
MaxCalls == 3
\* Calls of methods of instances of the decorated class, per run.
MaxMethodCalls == 2

\* fn.name of the functions given to autometrics(); "" for an anonymous one.
OwnNames == {"A", ""}
\* options.functionName; "none" when the option is not given.
ExplicitNames == {"none", "X"}
\* options.objective: not given, a name only, a name with successRate, with
\* latency, with both.
Objectives == {"none", "name", "successRate", "latency", "both"}
\* What the underlying functions return and throw.
Values == {"v1", "v2"}
Errors == {"e1", "e2"}
\* What a recordErrorIf / recordSuccessIf predicate does with its argument.
PredicateOutcomes == {"true", "false", "throws"}
\* The instruments autometrics() gets from the meter.
Instruments == {"counter", "histogram", "gauge"}
\* What an instrument of a failing backend throws from add() / record().
BackendError == "backendError"
\* `this` of a plain call f(...); an instance for a method call o.f(...).
Undefined == "undefined"
Instances == {"i1", "i2"}

ModulePath == "module"
NoStore == "none"
NoCaller == ""

\* The options the functions of a run are wrapped with: one object per run.
\* The objective only selects label values and the predicates only the
\* classification: SpecLabels draws the shapes of objective, SpecPredicates
\* supplies the predicates, SpecBackend lets the instruments throw.
OptionSets == [objective : {"none"}, trackConcurrency : BOOLEAN,
               recordErrorIf : {FALSE}, recordSuccessIf : {FALSE}]
PredicateOptionSets == [objective : {"none"}, trackConcurrency : BOOLEAN,
                        recordErrorIf : {TRUE}, recordSuccessIf : {TRUE}]
LabelOptionSets == [objective : Objectives, trackConcurrency : {FALSE},
                    recordErrorIf : {FALSE}, recordSuccessIf : {FALSE}]
BackendOptionSets == [objective : {"none"}, trackConcurrency : BOOLEAN,
                      recordErrorIf : {FALSE}, recordSuccessIf : BOOLEAN]

\* No class has been defined.
NoClass == [decorated |-> "no", properties |-> <<>>]

WrapperInit(optionSets) ==
    /\ asyncLocalStorage = FALSE
    /\ options \in optionSets
    /\ wrappers = <<>>
    /\ invocations = <<>>
    /\ stack = <<>>
    /\ faulty = "none"
    /\ prototype = NoClass

InitWrapper == WrapperInit(OptionSets) /\ ExporterInit({Infinity})

NumCalls == Len(wrappers) + Len(invocations)

\* The async function started at module load where `typeof window` is
\* "undefined" resumes after `await getALSInstance()`, when no other code is
\* running. In a browser it is never started: the runs without this step.
ALSLoaded ==
    /\ ~asyncLocalStorage
    /\ stack = <<>>
    /\ asyncLocalStorage' = TRUE
    /\ UNCHANGED <<options, wrappers, invocations, stack, faulty, prototype>>

\* The store of the asyncLocalStorage.run() scope the running code is in.
CurrentStore == IF stack = <<>> THEN NoStore ELSE invocations[stack[Len(stack)]].store

\* getALSCaller(asyncLocalStorage): the caller of the current store, if any.
GetALSCaller(als, store) == IF als /\ store # NoStore THEN store ELSE NoCaller

ResolveNameOwnFirst(explicit, own) == IF own # "" THEN own ELSE explicit
\* `options.functionName ?? fn.name`
ResolveName(explicit, own) == IF explicit # "none" THEN explicit ELSE own

HasLatency(objective) == objective \in {"latency", "both"}
HasSuccessRate(objective) == objective \in {"successRate", "both"}

CounterObjectiveAttributesIfSet(objective) ==
    IF objective = "none" THEN <<>>
    ELSE [objective_name |-> "api",
          objective_percentile |-> IF HasSuccessRate(objective) THEN "99" ELSE ""]

CounterObjectiveAttributes(objective) ==
    [objective_name |-> IF objective = "none" THEN "" ELSE "api",
     objective_percentile |-> IF HasSuccessRate(objective) THEN "99" ELSE ""]

HistogramObjectiveAttributes(objective) ==
    [objective_name |-> IF objective = "none" THEN "" ELSE "api",
     objective_latency_threshold |-> IF HasLatency(objective) THEN "0.25" ELSE "",
     objective_percentile |-> IF HasLatency(objective) THEN "99" ELSE ""]

\* An observation: the instrument, the value and the attributes given to it.
Emission(instrument, value, labels) ==
    [instrument |-> instrument, value |-> value, labels |-> labels]

\* `{ function, module, result, caller, ...counterObjectiveAttributes }`
CounterLabels(wr, result) ==
    CounterObjectiveAttributes(options.objective) @@
    [function |-> wr.functionName, module |-> wr.moduleName, result |-> result,
     caller |-> wr.caller]

\* `{ function, module, caller, ...histogramObjectiveAttributes }`
HistogramLabels(wr) ==
    HistogramObjectiveAttributes(options.objective) @@
    [function |-> wr.functionName, module |-> wr.moduleName, caller |-> wr.caller]

GaugeLabels(wr) == [function |-> wr.functionName, module |-> wr.moduleName]
GaugeLabelsOnError(wr) ==
    [function |-> wr.functionName, module |-> wr.moduleName, caller |-> wr.caller]

\* The instruments autometrics() creates once the name is resolved.
CreatedInstruments(resolved) ==
    IF ~resolved THEN {}
    ELSE {"counter", "histogram"} \cup
         (IF options.trackConcurrency THEN {"gauge"} ELSE {})

\* What one autometrics(options, fn) call leaves behind for a function named
\* `own`: without a name fn itself is returned before any instrument is
\* created; with one, the closure of the returned function, after the
\* zero-value observation (which a failing counter throws out of).
NewWrapper(own, explicit) ==
    LET name == ResolveName(explicit, own)
        resolved == name # ""
        wr == [fn |-> own, explicit |-> explicit, functionName |-> name, moduleName |-> ModulePath,
               caller |-> GetALSCaller(asyncLocalStorage, CurrentStore),
               instrumented |-> resolved /\ faulty # "counter",
               threw |-> resolved /\ faulty = "counter",
               instruments |-> CreatedInstruments(resolved),
               emitted |-> <<>>]
    IN  [wr EXCEPT !.emitted =
            IF wr.instrumented
            THEN <<Emission("counter", 0, CounterLabels(wr, "ok"))>>
            ELSE <<>>]

\* autometrics(options, fn) for a function named `own`.
Wrap(own, explicit) ==
    /\ NumCalls < MaxCalls
    /\ wrappers' = Append(wrappers, NewWrapper(own, explicit))
    /\ UNCHANGED <<asyncLocalStorage, options, invocations, stack, faulty, prototype>>

\* The steps of one call of a returned function, as they are logged per call:
\* "start" (performance.now()), "gaugeUp" / "gaugeDown" (concurrencyGauge.add),
\* "call" (fn.apply), "promise" (fn returned a promise), "result" (fn returned,
\* threw, or its promise settled), "predicate" (recordErrorIf / recordSuccessIf
\* called), "counter" (counter.add), "histogram" (histogram.record).
EventOf(em) ==
    IF em.instrument = "gauge"
    THEN (IF em.value > 0 THEN "gaugeUp" ELSE "gaugeDown")
    ELSE em.instrument
EventsOf(emitted) == [k \in 1..Len(emitted) |-> EventOf(emitted[k])]

EntryEventsCallFirst(emitted) == <<"call", "start">> \o EventsOf(emitted)
\* The returned function up to `fn.apply(this, params)`.
EntryEvents(emitted) == <<"start">> \o EventsOf(emitted) \o <<"call">>

NoResult == [kind |-> "none", val |-> "none"]
Result(kind, val) == [kind |-> kind, val |-> val]

\* `this` inside instrumentedFn, which `fn.apply(this, params)` hands to fn:
\* instrumentedFn is a function of its own, called without a receiver by
\* asyncLocalStorage.run() and by `instrumentedFn()`.
ThisOfInstrumentedFn(receiver) == Undefined

\* A call, with `this` = receiver, of what autometrics() returned for wrapper
\* w, from the top level or from the body of the function that is running:
\* the entry bookkeeping up to `fn.apply(this, params)`. A failing gauge throws
\* out of the call before fn is reached.
Enter(w, receiver) ==
    /\ w \in 1..Len(wrappers)
    /\ ~wrappers[w].threw
    /\ LET wr == wrappers[w]
           i == Len(invocations) + 1
           gauge == wr.instrumented /\ options.trackConcurrency
           call == [w |-> w, receiver |-> receiver,
                    thisArg |-> IF wr.instrumented
                                THEN ThisOfInstrumentedFn(receiver) ELSE receiver,
                    store |-> IF wr.instrumented /\ asyncLocalStorage
                              THEN wr.functionName ELSE CurrentStore,
                    state |-> "running", under |-> NoResult, observed |-> NoResult,
                    predicates |-> <<>>,
                    events |-> IF ~wr.instrumented THEN <<"call">>
                               ELSE IF gauge THEN EntryEvents(<<Emission("gauge", 1, GaugeLabels(wr))>>)
                               ELSE EntryEvents(<<>>),
                    emitted |-> IF gauge THEN <<Emission("gauge", 1, GaugeLabels(wr))>>
                                ELSE <<>>]
       IN  IF gauge /\ faulty = "gauge"
           THEN /\ invocations' = Append(invocations,
                      [call EXCEPT !.state = "done", !.thisArg = "none",
                                   !.store = CurrentStore, !.emitted = <<>>,
                                   !.events = <<"start">>,
                                   !.observed = Result("threw", BackendError)])
                /\ UNCHANGED stack
           ELSE /\ invocations' = Append(invocations, call)
                /\ stack' = Append(stack, i)
    /\ UNCHANGED <<asyncLocalStorage, options, wrappers, faulty, prototype>>

\* wrapped(...params): a plain call.
Invoke(w) ==
    /\ NumCalls < MaxCalls
    /\ Enter(w, Undefined)

\* The duration the histogram records is not modelled (value 0).
OnSuccess(w) ==
    <<Emission("counter", 1, CounterLabels(wrappers[w], "ok")),
      Emission("histogram", 0, HistogramLabels(wrappers[w]))>>
    \o (IF options.trackConcurrency
        THEN <<Emission("gauge", -1, GaugeLabels(wrappers[w]))>> ELSE <<>>)

OnErrorKeepingGauge(w) ==
    <<Emission("counter", 1, CounterLabels(wrappers[w], "error")),
      Emission("histogram", 0, HistogramLabels(wrappers[w]))>>

OnError(w) ==
    <<Emission("counter", 1, CounterLabels(wrappers[w], "error")),
      Emission("histogram", 0, HistogramLabels(wrappers[w]))>>
    \o (IF options.trackConcurrency
        THEN <<Emission("gauge", -1, GaugeLabelsOnError(wrappers[w]))>> ELSE <<>>)

\* What running a block of code did: the observations made and whether an
\* exception left it.
Ran(emitted, threw) == [emitted |-> emitted, threw |-> threw]

\* onSuccess() / onError() against the backend: the observations are made in
\* order up to the first one on the failing instrument, which throws.
Exec(observations) ==
    LET bad == {k \in 1..Len(observations) : observations[k].instrument = faulty}
    IN  IF bad = {} THEN Ran(observations, FALSE)
        ELSE Ran(SubSeq(observations, 1,
                        (CHOOSE k \in bad : \A j \in bad : k <= j) - 1), TRUE)

TryWithoutCatch(first, handler) == first
\* try { first } catch { handler }: an exception of the handler leaves the block.
TryCatch(first, handler) ==
    IF first.threw THEN Ran(first.emitted \o handler.emitted, handler.threw)
    ELSE first

RecordSuccessAsError(w, pred) == Exec(OnError(w))
RecordSuccessWhatever(w, pred) == Exec(OnSuccess(w))
\* recordSuccess(returnValue): pred is what recordErrorIf does when it is called.
RecordSuccess(w, pred) ==
    TryCatch(IF options.recordErrorIf /\ pred = "throws" THEN Ran(<<>>, TRUE)
             ELSE IF options.recordErrorIf /\ pred = "true" THEN Exec(OnError(w))
             ELSE Exec(OnSuccess(w)),
             Exec(OnSuccess(w)))

RecordErrorAsSuccess(w, pred) == Exec(OnSuccess(w))
RecordErrorWhatever(w, pred) == Exec(OnError(w))
\* recordError(error): pred is what recordSuccessIf does when it is called.
RecordError(w, pred) ==
    TryCatch(IF options.recordSuccessIf /\ pred = "throws" THEN Ran(<<>>, TRUE)
             ELSE IF options.recordSuccessIf /\ pred = "true" THEN Exec(OnSuccess(w))
             ELSE Exec(OnError(w)),
             Exec(OnError(w)))

Top == stack[Len(stack)]
Pop == SubSeq(stack, 1, Len(stack) - 1)
Instrumented(i) == wrappers[invocations[i].w].instrumented

\* recordSuccess / recordError in the log: the predicate, if one is supplied,
\* is called first, then come the observations.
ClassifyEvents(supplied, ran) ==
    (IF supplied THEN <<"predicate">> ELSE <<>>) \o EventsOf(ran.emitted)

\* A call a predicate received: which one, its argument and what it did.
PredicateCall(predicate, arg, outcome) ==
    [predicate |-> predicate, arg |-> arg, outcome |-> outcome]

\* What recordSuccess(returnValue) is called with in the `.then` handler
\* (`result`) and after a call that returned no promise (`returnValue`).
SuccessArgument(value) == value

\* `recordSuccess(v); return v` inside `try { } catch (error) { recordError(error);
\* throw error }`, and the same pair as `.then()` and `.catch()` handlers: an
\* exception leaving recordSuccess is recorded by recordError and passed on.
\* What the block did, the predicate calls made and the exception if any.
AfterSuccess(i, v, pred, pred2) ==
    LET w == invocations[i].w
        first == RecordSuccess(w, pred)
        ran == TryCatch(first, RecordError(w, pred2))
    IN  IF ~Instrumented(i)
        THEN [ran |-> Ran(<<>>, FALSE), predicates |-> <<>>, error |-> "none",
              events |-> <<"result">>]
        ELSE [ran |-> ran,
              events |-> <<"result">> \o ClassifyEvents(options.recordErrorIf, first) \o
                         (IF first.threw
                          THEN ClassifyEvents(options.recordSuccessIf, RecordError(w, pred2))
                          ELSE <<>>),
              predicates |->
                  (IF options.recordErrorIf
                   THEN <<PredicateCall("recordErrorIf", SuccessArgument(v), pred)>>
                   ELSE <<>>) \o
                  (IF first.threw /\ options.recordSuccessIf
                   THEN <<PredicateCall("recordSuccessIf", BackendError, pred2)>>
                   ELSE <<>>),
              error |-> IF first.threw THEN BackendError ELSE "none"]

\* `recordError(error); throw error` in the catch block and the `.catch` handler.
AfterFailure(i, e, pred) ==
    LET ran == RecordError(invocations[i].w, pred)
    IN  IF ~Instrumented(i)
        THEN [ran |-> Ran(<<>>, FALSE), predicates |-> <<>>, error |-> e,
              events |-> <<"result">>]
        ELSE [ran |-> ran,
              events |-> <<"result">> \o ClassifyEvents(options.recordSuccessIf, ran),
              predicates |-> IF options.recordSuccessIf
                             THEN <<PredicateCall("recordSuccessIf", e, pred)>>
                             ELSE <<>>,
              error |-> IF ran.threw THEN BackendError ELSE e]

Finish(i, state, under, observed, after) ==
    /\ invocations' = [invocations EXCEPT
                          ![i].state = state, ![i].under = under,
                          ![i].observed = observed,
                          ![i].predicates = after.predicates,
                          ![i].events = invocations[i].events \o after.events,
                          ![i].emitted = invocations[i].emitted \o after.ran.emitted]
    /\ UNCHANGED <<asyncLocalStorage, options, wrappers, faulty, prototype>>

\* `return returnValue` / `return result`: the value is handed on as it is.
Returned(value) == value
\* `throw error` in the catch block and in the `.catch` handler.
Rethrown(error) == error

\* What the caller gets after the function succeeded / failed: `raised` and
\* `passed` name the two ways (thrown or rejected, returned or fulfilled).
SuccessOutcome(after, v, passed, raised) ==
    IF after.error = "none" THEN Result(passed, Returned(v))
    ELSE Result(raised, Rethrown(after.error))
FailureOutcome(after, raised) == Result(raised, Rethrown(after.error))

\* What to draw for `predicate?.(x)`: a predicate that is not supplied is not
\* called and the expression is undefined, which counts as false.
OutcomesOf(supplied) == IF supplied THEN PredicateOutcomes ELSE {"false"}
\* The same for the recordError() in the handler that catches what left
\* recordSuccess(), which only a failing backend makes it do.
RecoveryOutcomes == OutcomesOf(faulty # "none" /\ options.recordSuccessIf)

\* The running function returns a value that is not a promise.
Return(v, pred, pred2) ==
    /\ stack # <<>>
    /\ LET after == AfterSuccess(Top, v, pred, pred2)
       IN  Finish(Top, "done", Result("return", v),
                  SuccessOutcome(after, v, "returned", "threw"), after)
    /\ stack' = Pop

\* The running function throws.
Throw(e, pred) ==
    /\ stack # <<>>
    /\ LET after == AfterFailure(Top, e, pred)
       IN  Finish(Top, "done", Result("throw", e), FailureOutcome(after, "threw"), after)
    /\ stack' = Pop

\* The running function returns a promise: the handlers are attached and the
\* promise `.then(...).catch(...)` made is returned.
ReturnPromise ==
    /\ stack # <<>>
    /\ Finish(Top, "pending", Result("promise", "pending"),
              Result("promise", "pending"),
              [ran |-> Ran(<<>>, FALSE), predicates |-> <<>>, error |-> "none",
               events |-> <<"promise">>])
    /\ stack' = Pop

\* The promise of call i fulfils: the `.then` handler records and returns the result.
Fulfil(i, v, pred, pred2) ==
    /\ stack = <<>>
    /\ i \in 1..Len(invocations)
    /\ invocations[i].state = "pending"
    /\ LET after == AfterSuccess(i, v, pred, pred2)
       IN  Finish(i, "done", Result("fulfilled", v),
                  SuccessOutcome(after, v, "fulfilled", "rejected"), after)
    /\ UNCHANGED stack

\* The promise of call i rejects: the `.catch` handler records and rethrows.
Reject(i, e, pred) ==
    /\ stack = <<>>
    /\ i \in 1..Len(invocations)
    /\ invocations[i].state = "pending"
    /\ LET after == AfterFailure(i, e, pred)
       IN  Finish(i, "done", Result("rejected", e), FailureOutcome(after, "rejected"), after)
    /\ UNCHANGED stack

\* What the called functions do, and the late start of the context storage.
NextCall ==
    \/ ALSLoaded /\ UNCHANGED exporterVars
    \/ \E v \in Values, pred \in OutcomesOf(options.recordErrorIf),
          pred2 \in RecoveryOutcomes :
          Return(v, pred, pred2) /\ UNCHANGED exporterVars
    \/ \E e \in Errors, pred \in OutcomesOf(options.recordSuccessIf) :
          Throw(e, pred) /\ UNCHANGED exporterVars
    \/ ReturnPromise /\ UNCHANGED exporterVars
    \/ \E i \in 1..MaxCalls, v \in Values, pred \in OutcomesOf(options.recordErrorIf),
          pred2 \in RecoveryOutcomes :
          Fulfil(i, v, pred, pred2) /\ UNCHANGED exporterVars
    \/ \E i \in 1..MaxCalls, e \in Errors, pred \in OutcomesOf(options.recordSuccessIf) :
          Reject(i, e, pred) /\ UNCHANGED exporterVars

NextWrapper ==
    \/ \E own \in OwnNames, explicit \in ExplicitNames :
          Wrap(own, explicit) /\ UNCHANGED exporterVars
    \/ \E w \in 1..MaxCalls : Invoke(w) /\ UNCHANGED exporterVars
    \/ NextCall

SpecWrapper == InitWrapper /\ [][NextWrapper]_vars

\* Both predicates supplied.
InitPredicates == WrapperInit(PredicateOptionSets) /\ ExporterInit({Infinity})
SpecPredicates == InitPredicates /\ [][NextWrapper]_vars

\* The shapes of objective.
InitLabels == WrapperInit(LabelOptionSets) /\ ExporterInit({Infinity})
SpecLabels == InitLabels /\ [][NextWrapper]_vars

\* ------------------------------------------------------------------ failing backend
\* An instrument of the metrics backend starts to throw from add() / record().
BackendFails(instrument) ==
    /\ faulty = "none"
    /\ faulty' = instrument
    /\ UNCHANGED <<asyncLocalStorage, options, wrappers, invocations, stack, prototype>>

InitBackend == WrapperInit(BackendOptionSets) /\ ExporterInit({Infinity})

NextBackend ==
    \/ \E instrument \in Instruments : BackendFails(instrument) /\ UNCHANGED exporterVars
    \/ NextWrapper

SpecBackend == InitBackend /\ [][NextBackend]_vars

\* ------------------------------------------------------------------ @Autometrics() class
\* The own properties of a class prototype when the class decorator runs, in
\* the order of Object.getOwnPropertyNames: the constructor, then the members
\* of the class body: a method (a function whose name is the property name),
\* or an accessor, whose getter, called on the prototype, returns a value that
\* is not a function, returns a function, or throws.
MemberNames == <<"m1", "m2">>
MemberKinds == {"method", "getterValue", "getterFunction", "getterThrows"}
\* wrapper: the autometrics() closure that is the property's value; 0: the
\* property is as the class body defined it.
Property(name, kind) == [name |-> name, kind |-> kind, wrapper |-> 0]
Classes ==
    {<<Property("constructor", "constructor")>> \o
     [k \in 1..Len(MemberNames) |-> Property(MemberNames[k], kinds[k])] :
        kinds \in [1..Len(MemberNames) -> MemberKinds]}

\* The class decorator's loop from property k on: ws and props are the
\* closures made and the prototype so far. Reading an accessor calls its
\* getter; the method decorator hands descriptor.value to autometrics(), which
\* for an accessor is undefined and comes back as undefined, and
\* defineProperty rejects a descriptor with both a getter and a value.
RECURSIVE ClassDecorator(_, _, _)
ClassDecorator(k, ws, props) ==
    IF k > Len(props) THEN [wrappers |-> ws, properties |-> props, threw |-> FALSE]
    ELSE LET p == props[k]
             nw == NewWrapper(p.name, "none")
         IN  IF p.kind = "getterThrows"
             THEN [wrappers |-> ws, properties |-> props, threw |-> TRUE]
             ELSE IF p.kind = "getterValue" \/ p.name = "constructor"
             THEN ClassDecorator(k + 1, ws, props)
             ELSE IF p.kind = "getterFunction"
             THEN [wrappers |-> ws, properties |-> props, threw |-> TRUE]
             ELSE IF nw.threw
             THEN [wrappers |-> Append(ws, nw), properties |-> props, threw |-> TRUE]
             ELSE ClassDecorator(k + 1, Append(ws, nw),
                      [props EXCEPT ![k].wrapper =
                          IF nw.instrumented THEN Len(ws) + 1 ELSE 0])

\* @Autometrics(options) on the class: runs once, when the class is defined.
Decorate ==
    /\ prototype.decorated = "no"
    /\ prototype.properties # <<>>
    /\ stack = <<>>
    /\ LET done == ClassDecorator(1, wrappers, prototype.properties)
       IN  /\ wrappers' = done.wrappers
           /\ prototype' = [decorated |-> IF done.threw THEN "threw" ELSE "yes",
                            properties |-> done.properties]
    /\ UNCHANGED <<asyncLocalStorage, options, invocations, stack, faulty>>

\* instance.name(...): the property is found on the prototype the instances
\* of the class share. A class whose decorator threw was never defined.
InvokeMethod(instance, k) ==
    /\ prototype.decorated = "yes"
    /\ Len(invocations) < MaxMethodCalls
    /\ k \in 1..Len(prototype.properties)
    /\ prototype.properties[k].wrapper > 0
    /\ Enter(prototype.properties[k].wrapper, instance)

InitDecorator ==
    /\ asyncLocalStorage = FALSE
    /\ options \in OptionSets
    /\ wrappers = <<>>
    /\ invocations = <<>>
    /\ stack = <<>>
    /\ faulty = "none"
    /\ prototype \in {[decorated |-> "no", properties |-> c] : c \in Classes}
    /\ ExporterInit({Infinity})

NextDecorator ==
    \/ Decorate /\ UNCHANGED exporterVars
    \/ \E instance \in Instances, k \in 1..(Len(MemberNames) + 1) :
          InvokeMethod(instance, k) /\ UNCHANGED exporterVars
    \/ NextCall

SpecDecorator == InitDecorator /\ [][NextDecorator]_vars

\* ------------------------------------------------------------------ claims
Admitted(e) == calls[e].status = "admitted"
\* Deliveries whose fetch was started and whose finally handler has not run.
InFlight == {d \in ExportIds : Admitted(d) /\ calls[d].stage \in {"sending", "checked"}}
ExportStep == numCalls' = numCalls + 1

\* C1: in every reachable state the number of in-flight deliveries (the
\* length of the array, and the deliveries started and not yet removed) is at
\* most concurrencyLimit; Infinity when no limit is configured.
C1_InFlightWithinLimit ==
    /\ Len(sendingPromises) <= concurrencyLimit
    /\ Cardinality(InFlight) <= concurrencyLimit

C1_Witness ==
    /\ concurrencyLimit = 2
    /\ Len(sendingPromises) = 2
    /\ \E e \in ExportIds : calls[e].status = "limit"

\* C2: an export issued (before shutdown) while the in-flight count has
\* reached concurrencyLimit fails at once through its callback with the
\* concurrency-limit reason, starts no delivery and queues nothing; one issued
\* below the limit is admitted and starts a delivery.
C2_RejectedAtLimit ==
    [][(ExportStep /\ ~isCalled) =>
         LET e == numCalls'
         IN  IF Len(sendingPromises) >= concurrencyLimit
             THEN /\ calls'[e].cbLog = <<FailedLimit>>
                  /\ calls'[e].fetch = "none"
                  /\ calls'[e].stage = "done"
                  /\ sendingPromises' = sendingPromises
                  /\ microtasks' = microtasks
             ELSE /\ calls'[e].status = "admitted"
                  /\ calls'[e].fetch = "pending"
                  /\ sendingPromises' = Append(sendingPromises, e)]_vars

\* Limit 1: the second export overlapped the first and was rejected, the third
\* came after the first had settled and succeeded.
C2_Witness ==
    /\ concurrencyLimit = 1
    /\ calls[1].stage = "done"
    /\ calls[2].cbLog = <<FailedLimit>>
    /\ calls[3].cbLog = <<SUCCESS>>

ShutdownOutcome(r) == flushes[shutdownReturned[r]].deferred

\* C3: however many shutdown requests are made, the teardown runs once, for
\* the first request, and every request gets the promise bound to that
\* teardown, hence the same outcome.
C3_ShutdownOnce ==
    /\ Len(teardowns) = (IF shutdownReturned = <<>> THEN 0 ELSE 1)
    /\ \A r \in 1..Len(shutdownReturned) :
          /\ shutdownReturned[r] = shutdownReturned[1]
          /\ teardowns[1] = shutdownReturned[1]
          /\ ShutdownOutcome(r) = ShutdownOutcome(1)

C3_Witness ==
    /\ Len(shutdownReturned) >= 2
    /\ flushes[teardowns[1]].awaited # {}
    /\ ShutdownOutcome(2) = "rejected"

\* C4: once shutdown was requested the flag stays set, no delivery is added to
\* the in-flight array, and every export fails at once with the shut-down
\* reason without starting a fetch.
C4_NoDeliveryAfterShutdown ==
    [][isCalled =>
         /\ isCalled'
         /\ SeqToSet(sendingPromises') \subseteq SeqToSet(sendingPromises)
         /\ ExportStep =>
              /\ calls'[numCalls'].cbLog = <<FailedShutdown>>
              /\ calls'[numCalls'].fetch = "none"
              /\ calls'[numCalls'].stage = "done"]_vars

C4_Witness ==
    /\ isCalled
    /\ sendingPromises # <<>>
    /\ \E e \in ExportIds : calls[e].status = "shutdown"

\* C5: the callback of every export call is invoked exactly once: at most once
\* in every state, and once when the call is over.
C5_CallbackExactlyOnce ==
    \A e \in ExportIds :
        /\ Len(calls[e].cbLog) <= 1
        /\ calls[e].stage = "done" => Len(calls[e].cbLog) = 1

\* C6: the in-flight array holds, without duplicates, exactly the deliveries
\* that were started and whose settlement has not been handled yet: settling
\* removes that delivery and no other, whatever the outcome, so the array is
\* empty once all started deliveries have settled.
C6_RemovedOnSettle ==
    /\ SeqToSet(sendingPromises) = InFlight
    /\ Len(sendingPromises) = Cardinality(InFlight)
    /\ (\A d \in ExportIds : Admitted(d) => calls[d].stage \notin {"sending", "checked"})
          => sendingPromises = <<>>

\* The first of two deliveries in flight was removed after a transport
\* failure, the second is still there.
C6_Witness ==
    /\ calls[1].fetch = "rejected"
    /\ calls[1].stage = "removed"
    /\ sendingPromises = <<2>>

\* C7: every result the callback of an admitted export receives is SUCCESS
\* exactly when the delivery got a 2xx response, the non-2xx reason for another
\* response and the transport reason for a rejected fetch; the failure reasons
\* are pairwise distinct.
C7_ResultMatchesDelivery ==
    /\ Cardinality({FailedShutdown, FailedLimit, FailedStatus, FailedTransport}) = 4
    /\ \A e \in ExportIds : \A i \in 1..Len(calls[e].cbLog) :
          Admitted(e) =>
              /\ calls[e].cbLog[i] = SUCCESS <=> calls[e].fetch = "ok"
              /\ calls[e].fetch = "notOk" => calls[e].cbLog[i] = FailedStatus
              /\ calls[e].fetch = "rejected" => calls[e].cbLog[i] = FailedTransport

\* C8: the promise forceFlush returned has settled only if every delivery that
\* was in flight when forceFlush was called has settled.
C8_FlushWaitsForAll ==
    \A f \in 1..Len(flushes) :
        flushes[f].state # "pending" =>
            \A d \in flushes[f].awaited : calls[d].fetch # "pending"

OkIncrement(em) ==
    em.instrument = "counter" /\ em.value = 1 /\ em.labels.result = "ok"
ErrorIncrement(em) ==
    em.instrument = "counter" /\ em.value = 1 /\ em.labels.result = "error"
HistogramRecord(em) == em.instrument = "histogram"
CounterOrHistogram(em) == em.instrument \in {"counter", "histogram"}

\* Positions, among the observations of call i, of those of one kind.
Positions(i) == 1..Len(invocations[i].emitted)
OkIncrements(i) == {k \in Positions(i) : OkIncrement(invocations[i].emitted[k])}
ErrorIncrements(i) == {k \in Positions(i) : ErrorIncrement(invocations[i].emitted[k])}
HistogramRecords(i) == {k \in Positions(i) : HistogramRecord(invocations[i].emitted[k])}
CallMetrics(i) == {k \in Positions(i) : CounterOrHistogram(invocations[i].emitted[k])}

Done(i) == invocations[i].state = "done"
Succeeded(i) == Done(i) /\ invocations[i].under.kind \in {"return", "fulfilled"}
Failed(i) == Done(i) /\ invocations[i].under.kind \in {"throw", "rejected"}

\* C9: a call of an instrumented function that returned a value or whose
\* promise fulfilled, with no recordErrorIf given, made exactly one counter
\* increment with result "ok", exactly one histogram record and no increment
\* with result "error", and its counter and histogram observations carry the
\* same function, module and caller; a call that has not settled made none.
C9_SuccessRecordedOnce ==
    \A i \in 1..Len(invocations) :
        /\ (Instrumented(i) /\ Succeeded(i) /\ ~options.recordErrorIf) =>
              /\ Cardinality(OkIncrements(i)) = 1
              /\ Cardinality(HistogramRecords(i)) = 1
              /\ Cardinality(ErrorIncrements(i)) = 0
              /\ \A k, l \in CallMetrics(i) :
                    LET a == invocations[i].emitted[k].labels
                        b == invocations[i].emitted[l].labels
                    IN  /\ a.function = b.function
                        /\ a.module = b.module
                        /\ a.caller = b.caller
        /\ ~Done(i) => CallMetrics(i) = {}

\* A nested call that returned and a call whose promise fulfilled later.
C9_Witness ==
    /\ ~options.recordErrorIf
    /\ Len(invocations) = 2
    /\ Instrumented(1) /\ Instrumented(2)
    /\ Done(1) /\ invocations[1].under.kind = "fulfilled"
    /\ Done(2) /\ invocations[2].under.kind = "return"

\* C10: a call of an instrumented function that threw or whose promise
\* rejected, with no recordSuccessIf given, made exactly one counter increment
\* with result "error" and none with result "ok", and its caller got the same
\* error, thrown for a throw and as the rejection for a rejection.
C10_ErrorRecordedOnceAndRethrown ==
    \A i \in 1..Len(invocations) :
        (Instrumented(i) /\ Failed(i) /\ ~options.recordSuccessIf) =>
            /\ Cardinality(ErrorIncrements(i)) = 1
            /\ Cardinality(OkIncrements(i)) = 0
            /\ invocations[i].observed.val = invocations[i].under.val
            /\ invocations[i].observed.kind =
                  (IF invocations[i].under.kind = "throw" THEN "threw" ELSE "rejected")

\* One call threw and another one's promise rejected, with different errors.
C10_Witness ==
    /\ ~options.recordSuccessIf
    /\ Len(invocations) = 2
    /\ Instrumented(1) /\ Instrumented(2)
    /\ Failed(1) /\ Failed(2)
    /\ invocations[1].under = Result("rejected", "e2")
    /\ invocations[2].under = Result("throw", "e1")

\* The outcome the caller of call i got is the outcome of the underlying
\* function: the same value returned or fulfilled, the same error thrown or
\* rejected, a promise for a promise.
SameOutcome(i) ==
    LET under == invocations[i].under
        observed == invocations[i].observed
    IN  /\ observed.val = under.val
        /\ observed.kind = (CASE under.kind = "return" -> "returned"
                             [] under.kind = "throw" -> "threw"
                             [] OTHER -> under.kind)

Called(i) == invocations[i].thisArg # "none"
Settled(i) == invocations[i].state \in {"pending", "done"}

\* C11: the wrapper is transparent: the underlying function runs as in a
\* direct call, on the receiver the caller called the wrapper on, and what it
\* returns, fulfils with, throws or rejects with is what the caller gets,
\* whatever the options and whatever the predicates answer.
C11_Transparent ==
    \A i \in 1..Len(invocations) :
        /\ Called(i) => invocations[i].thisArg = invocations[i].receiver
        /\ Settled(i) => SameOutcome(i)

\* The call of recordErrorIf / recordSuccessIf that call i made, if it made one.
PredicateCalled(i, predicate) ==
    /\ invocations[i].predicates # <<>>
    /\ invocations[i].predicates[1].predicate = predicate
Answer(i) == invocations[i].predicates[1].outcome

\* C12: a call of an instrumented function, wrapped with recordErrorIf, that
\* returned a value or whose promise fulfilled gave that value (the fulfilled
\* one, not the promise) to recordErrorIf; where it answered true the call
\* made exactly one counter increment with result "error" and none with "ok",
\* where it answered false exactly one with "ok" and none with "error"; the
\* caller got the value unchanged in both cases.
C12_RecordErrorIf ==
    \A i \in 1..Len(invocations) :
        (Instrumented(i) /\ Succeeded(i) /\ options.recordErrorIf) =>
            /\ PredicateCalled(i, "recordErrorIf")
            /\ Len(invocations[i].predicates) = 1
            /\ invocations[i].predicates[1].arg = invocations[i].under.val
            /\ Answer(i) = "true" =>
                  /\ Cardinality(ErrorIncrements(i)) = 1
                  /\ Cardinality(OkIncrements(i)) = 0
                  /\ SameOutcome(i)
            /\ Answer(i) = "false" =>
                  /\ Cardinality(OkIncrements(i)) = 1
                  /\ Cardinality(ErrorIncrements(i)) = 0
                  /\ SameOutcome(i)

\* A fulfilled value that recordErrorIf called an error, and a returned one
\* that it did not.
C12_Witness ==
    /\ Len(invocations) = 2
    /\ Instrumented(1) /\ Instrumented(2)
    /\ invocations[1].under = Result("fulfilled", "v2")
    /\ PredicateCalled(1, "recordErrorIf") /\ Answer(1) = "true"
    /\ invocations[2].under = Result("return", "v1")
    /\ PredicateCalled(2, "recordErrorIf") /\ Answer(2) = "false"

\* C13: a call of an instrumented function, wrapped with recordSuccessIf, that
\* threw or whose promise rejected gave the error to recordSuccessIf; where it
\* answered true the call made exactly one counter increment with result "ok"
\* and none with "error", where it answered false exactly one with "error" and
\* none with "ok"; the caller got the error, thrown or as the rejection, in
\* both cases.
C13_RecordSuccessIf ==
    \A i \in 1..Len(invocations) :
        (Instrumented(i) /\ Failed(i) /\ options.recordSuccessIf) =>
            /\ PredicateCalled(i, "recordSuccessIf")
            /\ Len(invocations[i].predicates) = 1
            /\ invocations[i].predicates[1].arg = invocations[i].under.val
            /\ Answer(i) = "true" =>
                  /\ Cardinality(OkIncrements(i)) = 1
                  /\ Cardinality(ErrorIncrements(i)) = 0
                  /\ SameOutcome(i)
            /\ Answer(i) = "false" =>
                  /\ Cardinality(ErrorIncrements(i)) = 1
                  /\ Cardinality(OkIncrements(i)) = 0
                  /\ SameOutcome(i)

\* A thrown error that recordSuccessIf called a success, and a rejection that
\* it did not.
C13_Witness ==
    /\ Len(invocations) = 2
    /\ Instrumented(1) /\ Instrumented(2)
    /\ invocations[1].under = Result("rejected", "e1")
    /\ PredicateCalled(1, "recordSuccessIf") /\ Answer(1) = "false"
    /\ invocations[2].under = Result("throw", "e2")
    /\ PredicateCalled(2, "recordSuccessIf") /\ Answer(2) = "true"
    /\ invocations[2].observed = Result("threw", "e2")

\* C14: where the predicate threw, the call was still recorded exactly once,
\* with the classification it has without predicates ("ok" after a value,
\* "error" after an error), and the caller got the outcome of the function,
\* not the exception of the predicate.
C14_PredicateThrows ==
    \A i \in 1..Len(invocations) :
        (Instrumented(i) /\ Done(i) /\ invocations[i].predicates # <<>>
            /\ Answer(i) = "throws") =>
            /\ Cardinality(OkIncrements(i)) = (IF Succeeded(i) THEN 1 ELSE 0)
            /\ Cardinality(ErrorIncrements(i)) = (IF Failed(i) THEN 1 ELSE 0)
            /\ Cardinality(HistogramRecords(i)) = 1
            /\ SameOutcome(i)

\* recordErrorIf threw on a fulfilled value and recordSuccessIf on a thrown error.
C14_Witness ==
    /\ Len(invocations) = 2
    /\ Instrumented(1) /\ Instrumented(2)
    /\ Succeeded(1) /\ invocations[1].under.kind = "fulfilled"
    /\ PredicateCalled(1, "recordErrorIf") /\ Answer(1) = "throws"
    /\ Failed(2) /\ invocations[2].under.kind = "throw"
    /\ PredicateCalled(2, "recordSuccessIf") /\ Answer(2) = "throws"

\* The labels of the counter and histogram observations of call i.
CallLabels(i) == {invocations[i].emitted[k].labels : k \in CallMetrics(i)}
\* The call from whose body the running call was made; 0 at the top level.
CallerOfTop == IF Len(stack) > 1 THEN stack[Len(stack) - 1] ELSE 0
\* Call p is a call of an instrumented function whose caller context entry
\* (its own name) is in place.
InScopeOf(p) ==
    /\ p # 0
    /\ Instrumented(p)
    /\ invocations[p].store = wrappers[invocations[p].w].functionName
\* Call i returns or throws in this step (it made no promise).
SettlesNow(i) == invocations[i].state = "running" /\ invocations'[i].state = "done"

\* C15: the caller label of the counter and histogram observations of a call
\* of an instrumented function B is the name of the instrumented function A
\* from whose body the call was made, and the no-caller value for a call made
\* from the top level, wherever and whenever B was wrapped. Stated for the
\* calls that return or throw, whose caller is still on the stack when the
\* observations are made.
C15_CallerPerInvocation ==
    [][\A i \in 1..Len(invocations) :
          (Instrumented(i) /\ SettlesNow(i)) =>
              /\ CallerOfTop = 0 =>
                    \A l \in CallLabels(i)' : l.caller = NoCaller
              /\ InScopeOf(CallerOfTop) =>
                    \A l \in CallLabels(i)' :
                        l.caller = wrappers[invocations[CallerOfTop].w].functionName]_vars

\* The observations made so far by autometrics() calls and by calls of what
\* they returned.
AllEmissions ==
    UNION {SeqToSet(wrappers[w].emitted) : w \in 1..Len(wrappers)} \cup
    UNION {SeqToSet(invocations[i].emitted) : i \in 1..Len(invocations)}
CounterKeys ==
    {"function", "module", "result", "caller", "objective_name", "objective_percentile"}
HistogramKeys ==
    {"function", "module", "caller", "objective_name", "objective_latency_threshold",
     "objective_percentile"}

\* C16: every counter observation (the zero one of wrap time, the "ok" and the
\* "error" increments) carries the same six labels and every histogram
\* observation the same six, whatever the objective; the objective labels are
\* empty strings exactly where the objective does not set them.
C16_LabelShape ==
    \A em \in AllEmissions :
        /\ em.instrument = "counter" =>
              /\ DOMAIN em.labels = CounterKeys
              /\ (em.labels.objective_name = "") = (options.objective = "none")
              /\ (em.labels.objective_percentile = "") = ~HasSuccessRate(options.objective)
        /\ em.instrument = "histogram" =>
              /\ DOMAIN em.labels = HistogramKeys
              /\ (em.labels.objective_name = "") = (options.objective = "none")
              /\ (em.labels.objective_latency_threshold = "") = ~HasLatency(options.objective)
              /\ (em.labels.objective_percentile = "") = ~HasLatency(options.objective)

\* An objective with a name only: the zero observation, an "ok" increment and
\* an "error" increment have been made.
C16_Witness ==
    /\ options.objective = "name"
    /\ Len(invocations) = 2
    /\ wrappers[1].emitted # <<>>
    /\ OkIncrements(1) # {}
    /\ ErrorIncrements(2) # {}

GaugeAdds(i, value) ==
    {k \in Positions(i) : /\ invocations[i].emitted[k].instrument = "gauge"
                          /\ invocations[i].emitted[k].value = value}
GaugeOther(i) ==
    {k \in Positions(i) : /\ invocations[i].emitted[k].instrument = "gauge"
                          /\ invocations[i].emitted[k].value \notin {1, -1}}

C18_BackendFailureHarmless ==
    \A i \in 1..Len(invocations) :
        Done(i) =>
            /\ invocations[i].under # NoResult
            /\ SameOutcome(i)

Unnamed(w) == wrappers[w].explicit = "none" /\ wrappers[w].fn = ""
CallsOf(w) == {i \in 1..Len(invocations) : invocations[i].w = w}

\* C19: autometrics() given no functionName and a function without a name
\* does not throw, returns the function itself (a call of the result is a
\* call of the function), creates no instrument and makes no observation, then
\* or in a later call. Given both a functionName and a named function, it
\* labels with the functionName.
C19_NameResolution ==
    \A w \in 1..Len(wrappers) :
        /\ Unnamed(w) =>
              /\ ~wrappers[w].threw
              /\ ~wrappers[w].instrumented
              /\ wrappers[w].instruments = {}
              /\ wrappers[w].emitted = <<>>
              /\ \A i \in CallsOf(w) :
                    /\ invocations[i].emitted = <<>>
                    /\ invocations[i].thisArg = invocations[i].receiver
                    /\ Settled(i) => SameOutcome(i)
        /\ (wrappers[w].explicit # "none" /\ wrappers[w].fn # "") =>
              /\ wrappers[w].functionName = wrappers[w].explicit
              /\ \A k \in 1..Len(wrappers[w].emitted) :
                    wrappers[w].emitted[k].labels.function = wrappers[w].explicit
              /\ \A i \in CallsOf(w) : \A k \in Positions(i) :
                    invocations[i].emitted[k].labels.function = wrappers[w].explicit

\* An unnamed function was wrapped, called and has thrown; a named one was
\* wrapped with a functionName.
C19_Witness ==
    /\ Len(wrappers) = 2
    /\ Unnamed(1)
    /\ \E i \in CallsOf(1) : invocations[i].under.kind = "throw"
    /\ wrappers[2].fn = "A" /\ wrappers[2].explicit = "X"
    /\ wrappers[2].emitted # <<>>

Methods == {k \in 1..Len(prototype.properties) : prototype.properties[k].kind = "method"}
MethodCalls(k) == CallsOf(prototype.properties[k].wrapper)

\* C20: once the class decorator has run, every method of the prototype is a
\* wrapper labelled with the method's name, every other property and the
\* constructor are what they were; calls of two methods are recorded under
\* two function labels, and the calls of a method by any instance go through
\* the one wrapper.
C20_ClassDecorator ==
    prototype.decorated # "no" =>
        /\ prototype.decorated = "yes"
        /\ \A k \in 1..Len(prototype.properties) :
              LET p == prototype.properties[k]
              IN  IF k \in Methods
                  THEN /\ p.wrapper \in 1..Len(wrappers)
                       /\ wrappers[p.wrapper].instrumented
                       /\ wrappers[p.wrapper].functionName = p.name
                  ELSE p.wrapper = 0
        /\ \A k, l \in Methods :
              k # l => \A i \in MethodCalls(k), j \in MethodCalls(l) :
                          \A a \in CallLabels(i), b \in CallLabels(j) :
                              a.function # b.function
        /\ Len(wrappers) = Cardinality(Methods)

\* The place of a logged step in the order of one call: start-time capture,
\* gauge increment, the call of the function, its result, the predicates, and
\* last the observations given to the counter, the histogram and the gauge.
Rank(ev) ==
    CASE ev = "start" -> 1
      [] ev = "gaugeUp" -> 2
      [] ev = "call" -> 3
      [] ev = "promise" -> 4
      [] ev = "result" -> 5
      [] ev = "predicate" -> 6
      [] OTHER -> 7
LastRank(i) == Rank(invocations[i].events[Len(invocations[i].events)])

\* C21: in every call of an instrumented function the logged steps come in
\* this order: the start time is taken, the gauge is incremented, the function
\* is called, it returns, throws or its promise settles, the predicates are
\* called, and only then the counter and the histogram are given their
\* observation and the gauge is decremented; a call that has not settled
\* (running, or waiting for its promise) has gone no further than the call of
\* the function, so it has called no predicate and recorded nothing, and a
\* settled call has recorded.
C21_OrderWithinCall ==
    \A i \in 1..Len(invocations) :
        Instrumented(i) =>
            /\ invocations[i].events[1] = "start"
            /\ \A k \in 1..(Len(invocations[i].events) - 1) :
                  Rank(invocations[i].events[k]) <= Rank(invocations[i].events[k + 1])
            /\ Done(i) <=> LastRank(i) = 7
            /\ ~Done(i) <=> LastRank(i) \in {3, 4}

\* With trackConcurrency and both predicates: one call waits for its promise,
\* one has returned and gone through the whole sequence.
C21_Witness ==
    /\ options.trackConcurrency
    /\ Len(invocations) = 2
    /\ Instrumented(1) /\ Instrumented(2)
    /\ invocations[1].events = <<"start", "gaugeUp", "call", "promise">>
    /\ invocations[2].events =
          <<"start", "gaugeUp", "call", "result", "predicate", "counter", "histogram",
            "gaugeDown">>

\* A forceFlush() whose promise has not settled.
FlushWaiting == \E f \in 1..Len(flushes) : flushes[f].state = "pending"

\* C22: an export called while a flush is waiting and before any shutdown()
\* is admitted if the in-flight array is below the limit and refused with the
\* limit reason otherwise; admitted, it starts a delivery (fetch pending,
\* promise pushed) that no flush already started waits for: the set a flush
\* awaits is the in-flight array at its call and never grows. An export is
\* refused with the shutdown reason only after a shutdown() call, and only
\* shutdown() sets that flag.
C22_FlushAdmitsExports ==
    [][/\ \A f \in 1..Len(flushes) : flushes'[f].awaited = flushes[f].awaited
       /\ Len(flushes') > Len(flushes) =>
             flushes'[Len(flushes')].awaited = SeqToSet(sendingPromises)
       /\ (ExportStep /\ FlushWaiting /\ ~isCalled) =>
             IF Len(sendingPromises) < concurrencyLimit
             THEN /\ calls'[numCalls'].status = "admitted"
                  /\ calls'[numCalls'].fetch = "pending"
                  /\ sendingPromises' = Append(sendingPromises, numCalls')
                  /\ \A f \in 1..Len(flushes') : numCalls' \notin flushes'[f].awaited
             ELSE calls'[numCalls'].status = "limit"
       /\ ExportStep => (calls'[numCalls'].status = "shutdown" <=> isCalled)
       /\ (isCalled' # isCalled) => Len(shutdownReturned') > Len(shutdownReturned)
      ]_vars

\* A forceFlush() called with one delivery in flight has resolved although a
\* delivery admitted while it was waiting is still in flight.
C22_Witness ==
    /\ ~isCalled
    /\ \E f \in 1..Len(flushes), d \in ExportIds :
          /\ flushes[f].deferred = "none"
          /\ flushes[f].awaited # {}
          /\ flushes[f].state = "fulfilled"
          /\ Admitted(d)
          /\ d \notin flushes[f].awaited
          /\ \A a \in flushes[f].awaited : a < d
          /\ calls[d].fetch = "pending"

\* C23: where the context store exists (the module variable is set in this
\* run, which happens only where `typeof window` is "undefined"), every call
\* of an instrumented function, the calls made before the variable was set
\* included, ran the function inside a scope whose caller is the function's
\* name.
C23_ScopePerInvocation ==
    asyncLocalStorage =>
        \A i \in 1..Len(invocations) :
            Instrumented(i) =>
                invocations[i].store = wrappers[invocations[i].w].functionName

\* The add() calls made on the gauge with one attribute set and one value.
SeriesAdds(labels, value) ==
    UNION {{<<i, k>> : k \in {p \in Positions(i) :
                                  /\ invocations[i].emitted[p].instrument = "gauge"
                                  /\ invocations[i].emitted[p].value = value
                                  /\ invocations[i].emitted[p].labels = labels}} :
           i \in 1..Len(invocations)}
\* The value of the gauge series with these attributes.
GaugeValue(labels) ==
    Cardinality(SeriesAdds(labels, 1)) - Cardinality(SeriesAdds(labels, -1))
\* The calls of the functions labelled so that have started and not settled.
InFlightCalls(labels) ==
    {i \in 1..Len(invocations) :
        /\ Instrumented(i)
        /\ GaugeLabels(wrappers[invocations[i].w]) = labels
        /\ ~Done(i)}

\* C24: with trackConcurrency, in every state the gauge series labelled with
\* the function and module of an instrumented function has as value the
\* number of calls of that function that have started and not settled (zero
\* when none is in flight, after successes and after errors), and every add()
\* on the gauge carries exactly the attributes function and module.
C24_GaugeTracksInFlight ==
    options.trackConcurrency =>
        /\ \A w \in 1..Len(wrappers) :
              wrappers[w].instrumented =>
                  GaugeValue(GaugeLabels(wrappers[w])) =
                      Cardinality(InFlightCalls(GaugeLabels(wrappers[w])))
        /\ \A em \in AllEmissions :
              em.instrument = "gauge" => DOMAIN em.labels = {"function", "module"}

\* Export e was called from the resultCallback of delivery d, the last
\* delivery admitted before it.
FromPrevious(e, d) ==
    /\ calls[e].from = d
    /\ d # 0
    /\ \A x \in ExportIds : (d < x /\ x < e) => ~Admitted(x)

\* C25: a delivery whose resultCallback has been called is no longer in the
\* in-flight array; hence with concurrencyLimit 1 an export called from the
\* resultCallback of the previous delivery, called with success or with a
\* failure, is never refused with the limit reason: it is admitted, or, after
\* a shutdown() call, refused with the shutdown reason.
C25_SlotFreeInCallback ==
    /\ \A d \in ExportIds :
          (Admitted(d) /\ calls[d].cbLog # <<>>) => d \notin SeqToSet(sendingPromises)
    /\ \A e, d \in ExportIds :
          (concurrencyLimit = 1 /\ FromPrevious(e, d)) =>
              /\ calls[e].status \in {"admitted", "shutdown"}
              /\ calls[e].status = "shutdown" => isCalled

\* With concurrencyLimit 1: delivery 1 succeeded and its callback exported 2,
\* which was admitted and failed, and its callback exported 3, admitted too.
C25_Witness ==
    /\ concurrencyLimit = 1
    /\ calls[1].cbLog = <<SUCCESS>>
    /\ FromPrevious(2, 1) /\ Admitted(2)
    /\ calls[2].cbLog = <<FailedStatus>>
    /\ FromPrevious(3, 2) /\ Admitted(3)

\* C26: when the promise a shutdown() call returned has settled, the
\* in-flight array is empty: every delivery that was in flight at the request
\* has settled and been removed, and none was admitted since.
C26_ShutdownDrains ==
    \A r \in 1..Len(shutdownReturned) :
        ShutdownOutcome(r) # "pending" => sendingPromises = <<>>
====
